---- MODULE Spec2Model ----
(***************************************************************************)
(* PTA accounting front-end (src/script.js, lines 480-949): the session    *)
(* state, the Remote Data Client, the data processor and the controller's  *)
(* asynchronous handlers, as a state machine.                              *)
(*                                                                         *)
(* Text that the source writes in Japanese is written here in ASCII; the   *)
(* comment beside each definition gives the original.                      *)
(***************************************************************************)
EXTENDS Integers, Sequences, FiniteSets, TLC

VARIABLES
    userPasscode,        \* applicationState.userPasscode
    selectedFiscalYear,  \* applicationState.selectedFiscalYear
    accountingRecords,   \* applicationState.accountingRecords (the record cache)
    isEditable,          \* applicationState.isEditable
    screen,              \* which of login-screen / main-screen is displayed
    filterItem,          \* value of the #filter-item select
    sortOrder,           \* value of the #sort-order select
    processedRecords,    \* the records renderAccountingTable last rendered, in order
    viewRows,            \* the rows of #view-body, each with its checkbox
    totals,              \* the totals written by updateTotalsDisplay
    report,              \* the summary data renderSummaryReport last wrote
    acts,                \* the handler activations suspended on a network call,
                         \* in the order they were started
    ended,               \* the handler activation that ended in the latest step
    latestRead           \* the read request that was sent last, and its result

vars == <<userPasscode, selectedFiscalYear, accountingRecords, isEditable, screen,
          filterItem, sortOrder, processedRecords, viewRows, totals, report, acts,
          ended, latestRead>>

\* What renderAccountingTable writes.
table == <<processedRecords, viewRows, totals>>

----------------------------------------------------------------------------
(* Bounds of the model.                                                    *)

\* Handler activations that may be suspended on the network at the same time.
MaxHandlers == 2

\* Longest record collection the data-processing specification starts from.
MaxLen == 3

----------------------------------------------------------------------------
(* JavaScript values.                                                      *)

\* A JS number: NaN, or an integer value.
NaN == [nan |-> TRUE, val |-> 0]

Num(v) == [nan |-> FALSE, val |-> v]

\* Math.abs
MathAbs(n) == IF n.nan THEN NaN ELSE Num(IF n.val < 0 THEN 0 - n.val ELSE n.val)

\* isNaN
IsNaN(n) == n.nan

\* a + b and a - b on JS numbers
Plus(a, b) == IF a.nan \/ b.nan THEN NaN ELSE Num(a.val + b.val)

Minus(a, b) == IF a.nan \/ b.nan THEN NaN ELSE Num(a.val - b.val)

DigitChars == <<"0", "1", "2", "3", "4", "5", "6", "7", "8", "9">>

IsDigit(c) == \E i \in 1..10 : DigitChars[i] = c

DigitVal(c) == (CHOOSE i \in 1..10 : DigitChars[i] = c) - 1

\* Length of the longest prefix of s made of digits.
RECURSIVE DigitPrefixLen(_)
DigitPrefixLen(s) ==
    IF s = <<>> \/ ~IsDigit(Head(s)) THEN 0 ELSE 1 + DigitPrefixLen(Tail(s))

RECURSIVE DigitsValue(_, _)
DigitsValue(s, n) ==
    IF n = 0 THEN 0 ELSE 10 * DigitsValue(s, n - 1) + DigitVal(s[n])

\* parseFloat on a text given as a sequence of characters: an optional sign,
\* then the longest run of digits; NaN when no digit follows.  (The texts of
\* the model hold no blank, decimal point or exponent.)
ParseFloat(s) ==
    LET signed == s # <<>> /\ Head(s) \in {"-", "+"}
        body   == IF signed THEN Tail(s) ELSE s
        n      == DigitPrefixLen(body)
        v      == DigitsValue(body, n)
    IN  IF n = 0 THEN NaN
        ELSE Num(IF signed /\ Head(s) = "-" THEN 0 - v ELSE v)

\* The decimal digits of a natural number, as a text.
RECURSIVE DigitsOf(_)
DigitsOf(v) ==
    IF v < 10 THEN <<DigitChars[v + 1]>>
    ELSE Append(DigitsOf(v \div 10), DigitChars[(v % 10) + 1])

\* String(n), as a template literal `${n}` writes a number.
NumberToString(n) ==
    IF n.nan THEN <<"N", "a", "N">>
    ELSE IF n.val < 0 THEN <<"-">> \o DigitsOf(0 - n.val)
    ELSE DigitsOf(n.val)

\* Number(v) of a JSON number v.
ToNumber(v) == Num(v)

\* Truthiness of a JS string: the empty string (and an absent field, which a
\* result record holds as "") is falsy.
Truthy(str) == str # ""

----------------------------------------------------------------------------
(* Records: <<rowNumber, date, itemName, details, amount, payee, memo>>.   *)
(* A date text "2024-05-01" is held as <<2024, 5, 1>>.                     *)

\* dataProcessor.INCOME_ITEM_NAMES, in the order of the source:
\* 前年度繰越金, 本年度会費, 資源回収収益, 決算利息, その他収入
INCOME_ITEM_NAMES ==
    <<"zennendo-kurikoshikin", "honnendo-kaihi", "shigen-kaishu-shueki",
      "kessan-risoku", "sonota-shunyu">>

\* dataProcessor.EXPENSE_ITEM_NAMES, in the order of the source:
\* 備品・消耗品費, 交流会, お楽しみ会, お泊り会おみやげ, 運動会景品,
\* 卒園進級記念品代, 学年末お礼代, クラス担任アルバム, 慶弔費,
\* 札幌私立幼稚園PTA連合会会費, 日本スポーツ振興センター負担金,
\* 幼稚園寄付金, 用紙・印刷代, 通信費, 予備費
EXPENSE_ITEM_NAMES ==
    <<"bihin-shomohinhi", "koryukai", "otanoshimikai", "otomarikai-omiyage",
      "undokai-keihin", "sotsuen-shinkyu-kinenhindai", "gakunenmatsu-oreidai",
      "class-tannin-album", "keichohi", "pta-rengokai-kaihi",
      "sports-shinko-center-futankin", "yochien-kifukin", "yoshi-insatsudai",
      "tsushinhi", "yobihi">>

SeqToSet(s) == {s[i] : i \in 1..Len(s)}

\* Array.prototype.includes
Includes(arr, x) == \E i \in 1..Len(arr) : arr[i] = x

\* dataProcessor.isIncomeItem
isIncomeItem(itemName) == Includes(INCOME_ITEM_NAMES, itemName)

\* new Date(text) as a time value.  The source's time value counts the
\* milliseconds since 1970-01-01 of the (UTC) calendar date; the value here
\* counts the days, which keeps it within the model checker's integers and
\* leaves the sign of every difference of two time values as it is.
DaysFromCivil(y, m, d) ==
    LET yy  == IF m <= 2 THEN y - 1 ELSE y
        era == yy \div 400
        yoe == yy - era * 400
        mp  == (m + 9) % 12
        doy == (153 * mp + 2) \div 5 + d - 1
        doe == yoe * 365 + yoe \div 4 - yoe \div 100 + doy
    IN  era * 146097 + doe - 719468

DateValue(dateStr) == DaysFromCivil(dateStr[1], dateStr[2], dateStr[3])

\* The comparison function finding no two records out of order unless the
\* order asked is "asc".
CompareDatesAscendingOnly(a, b, order) ==
    IF order = "asc" THEN DateValue(a[2]) - DateValue(b[2]) ELSE 0

\* The comparison function handed to sort in filterAndSortRecords.
CompareDates(a, b, order) ==
    IF order = "asc" THEN DateValue(a[2]) - DateValue(b[2])
    ELSE DateValue(b[2]) - DateValue(a[2])

\* Array.prototype.sort is stable: x goes after every element that does not
\* compare greater than it.
RECURSIVE InsertSorted(_, _, _)
InsertSorted(sorted, x, order) ==
    IF sorted = <<>> THEN <<x>>
    ELSE IF CompareDates(Head(sorted), x, order) > 0 THEN <<x>> \o sorted
    ELSE <<Head(sorted)>> \o InsertSorted(Tail(sorted), x, order)

RECURSIVE SortByDate(_, _)
SortByDate(recs, order) ==
    IF recs = <<>> THEN <<>>
    ELSE InsertSorted(SortByDate(SubSeq(recs, 1, Len(recs) - 1), order),
                      recs[Len(recs)], order)

\* The predicate with an expense-only test that looks the category up in the
\* list of expense categories.
PassesFilterByExpenseList(record, filter) ==
    LET itemName == record[3]
    IN  IF filter = "ALL" THEN TRUE
        ELSE IF filter = "_INCOME_ONLY_" THEN isIncomeItem(itemName)
        ELSE IF filter = "_EXPENSES_ONLY_" THEN Includes(EXPENSE_ITEM_NAMES, itemName)
        ELSE itemName = filter

\* The predicate with a category key that passes every record of the key's
\* kind, income or expense.
PassesFilterByKind(record, filter) ==
    LET itemName == record[3]
    IN  IF filter = "ALL" THEN TRUE
        ELSE IF filter = "_INCOME_ONLY_" THEN isIncomeItem(itemName)
        ELSE IF filter = "_EXPENSES_ONLY_" THEN ~isIncomeItem(itemName)
        ELSE isIncomeItem(itemName) = isIncomeItem(filter)

\* The predicate handed to filter in filterAndSortRecords.
PassesFilter(record, filter) ==
    LET itemName == record[3]
    IN  IF filter = "ALL" THEN TRUE
        ELSE IF filter = "_INCOME_ONLY_" THEN isIncomeItem(itemName)
        ELSE IF filter = "_EXPENSES_ONLY_" THEN ~isIncomeItem(itemName)
        ELSE itemName = filter

\* Array.prototype.filter returns a new array and leaves its receiver as it is.
ArrayFilter(arr, filter) ==
    [receiver |-> arr, result |-> SelectSeq(arr, LAMBDA r : PassesFilter(r, filter))]

\* Array.prototype.sort sorts its receiver in place and returns it.
ArraySort(arr, order) ==
    [receiver |-> SortByDate(arr, order), result |-> SortByDate(arr, order)]

\* filterAndSortRecords sorting its argument in place.
RecordsSortedInPlace(records, filter, order) == ArraySort(records, order).receiver

\* The array handed to filterAndSortRecords, as the call leaves it: filter is
\* called on it, and sort on a copy ([...filteredRecords]) of what filter
\* returned.
RecordsAfterFilterAndSort(records, filter, order) ==
    LET filtered == ArrayFilter(records, filter)
        sorted   == ArraySort(filtered.result, order)
    IN  filtered.receiver

\* filterAndSortRecords sorting in ascending order whatever the order asked.
FilterAndSortAscending(records, filter, order) ==
    SortByDate(SelectSeq(records, LAMBDA r : PassesFilter(r, filter)), "asc")

\* dataProcessor.filterAndSortRecords
filterAndSortRecords(records, filter, order) ==
    LET filtered == ArrayFilter(records, filter)
        sorted   == ArraySort(filtered.result, order)
    IN  sorted.result

\* A row whose checkbox carries data-income="false" whatever the category.
ViewRowAsExpense(record, editable) ==
    [rowNumber    |-> record[1],
     amount       |-> NumberToString(ToNumber(record[5])),
     income       |-> "false",
     checked      |-> TRUE,
     deleteButton |-> editable]

\* What renderAccountingTable leaves in #view-body: one row per processed
\* record (_createViewRowHtml), its checkbox checked and carrying data-amount
\* and data-income, with a delete button when the session is editable.
ViewRow(record, editable) ==
    [rowNumber    |-> record[1],
     amount       |-> NumberToString(ToNumber(record[5])),
     income       |-> IF isIncomeItem(record[3]) THEN "true" ELSE "false",
     checked      |-> TRUE,
     deleteButton |-> editable]

RenderRows(processed, editable) ==
    [i \in 1..Len(processed) |-> ViewRow(processed[i], editable)]

\* The total calculateTotalsFromSelection holds for one of the two flags after
\* the first n checkboxes: it adds parseFloat(data-amount) of a checked box
\* whose data-income is the flag.
RECURSIVE SumChecked(_, _, _)
SumChecked(boxes, n, income) ==
    IF n = 0 THEN Num(0)
    ELSE IF boxes[n].checked /\ (boxes[n].income = "true") = income
    THEN Plus(SumChecked(boxes, n - 1, income), ParseFloat(boxes[n].amount))
    ELSE SumChecked(boxes, n - 1, income)

\* The totals of every checkbox, checked or not.
TotalsOfAllRows(checkboxElements) ==
    LET all          == [i \in 1..Len(checkboxElements) |->
                            [checkboxElements[i] EXCEPT !.checked = TRUE]]
        incomeTotal  == SumChecked(all, Len(all), TRUE)
        expenseTotal == SumChecked(all, Len(all), FALSE)
    IN  [incomeTotal |-> incomeTotal, expenseTotal |-> expenseTotal,
         balance |-> Minus(incomeTotal, expenseTotal)]

\* dataProcessor.calculateTotalsFromSelection
calculateTotalsFromSelection(checkboxElements) ==
    LET incomeTotal  == SumChecked(checkboxElements, Len(checkboxElements), TRUE)
        expenseTotal == SumChecked(checkboxElements, Len(checkboxElements), FALSE)
    IN  [incomeTotal |-> incomeTotal, expenseTotal |-> expenseTotal,
         balance |-> Minus(incomeTotal, expenseTotal)]

\* app.recalculateSelected of the earlier version of the page
\* (src/unnamed/part_000): incomeTotal and expenseTotal after the first n
\* checkboxes, and the three totals it displays.
RECURSIVE SelectedTotals(_, _)
SelectedTotals(checkboxes, n) ==
    IF n = 0 THEN [incomeTotal |-> Num(0), expenseTotal |-> Num(0)]
    ELSE LET before   == SelectedTotals(checkboxes, n - 1)
             cb       == checkboxes[n]
             amt      == ParseFloat(cb.amount)
             isIncome == cb.income = "true"
         IN  IF ~cb.checked THEN before
             ELSE IF isIncome
             THEN [before EXCEPT !.incomeTotal = Plus(@, amt)]
             ELSE [before EXCEPT !.expenseTotal = Plus(@, amt)]

recalculateSelected(checkboxes) ==
    LET sums == SelectedTotals(checkboxes, Len(checkboxes))
    IN  [incomeTotal |-> sums.incomeTotal, expenseTotal |-> sums.expenseTotal,
         balance |-> Minus(sums.incomeTotal, sums.expenseTotal)]

\* A Map, as the sequence of its entries in insertion order.
MapHas(map, key) == \E i \in 1..Len(map) : map[i].itemName = key

MapGet(map, key) == map[CHOOSE i \in 1..Len(map) : map[i].itemName = key].totalAmount

\* Map.prototype.set: the entry of a key the map holds keeps its place.
MapSet(map, key, value) ==
    IF MapHas(map, key)
    THEN [i \in 1..Len(map) |->
             IF map[i].itemName = key THEN [map[i] EXCEPT !.totalAmount = value]
             ELSE map[i]]
    ELSE Append(map, [itemName |-> key, totalAmount |-> value])

\* names.forEach((item) => map.set(item, 0)) on a new Map, for the first n names.
RECURSIVE MapInit(_, _)
MapInit(names, n) ==
    IF n = 0 THEN <<>> ELSE MapSet(MapInit(names, n - 1), names[n], Num(0))

\* The body of records.forEach in calculateSummary, with an else branch that
\* does not test expenseMap.has: the amount goes to an entry of its own.
AccumulateUntested(maps, record) ==
    LET itemName == record[3]
        amount   == ParseFloat(NumberToString(ToNumber(record[5])))
    IN  IF MapHas(maps.income, itemName)
        THEN [maps EXCEPT !.income = MapSet(@, itemName, Plus(MapGet(@, itemName), amount))]
        ELSE IF MapHas(maps.expense, itemName)
        THEN [maps EXCEPT !.expense = MapSet(@, itemName, Plus(MapGet(@, itemName), amount))]
        ELSE [maps EXCEPT !.expense = MapSet(@, itemName, amount)]

\* The same body deleting an entry before it sets it again, which moves the
\* entry to the end of its map.
AccumulateMovingToEnd(maps, record) ==
    LET itemName == record[3]
        amount   == ParseFloat(NumberToString(ToNumber(record[5])))
        Moved(map) ==
            Append(SelectSeq(map, LAMBDA e : e.itemName # itemName),
                   [itemName |-> itemName,
                    totalAmount |-> Plus(MapGet(map, itemName), amount)])
    IN  IF MapHas(maps.income, itemName)
        THEN [maps EXCEPT !.income = Moved(@)]
        ELSE IF MapHas(maps.expense, itemName)
        THEN [maps EXCEPT !.expense = Moved(@)]
        ELSE maps

\* The body of records.forEach in calculateSummary; parseFloat is given the
\* amount of the record, which it reads as a text.
AccumulateRecord(maps, record) ==
    LET itemName == record[3]
        amount   == ParseFloat(NumberToString(ToNumber(record[5])))
    IN  IF MapHas(maps.income, itemName)
        THEN [maps EXCEPT !.income = MapSet(@, itemName, Plus(MapGet(@, itemName), amount))]
        ELSE IF MapHas(maps.expense, itemName)
        THEN [maps EXCEPT !.expense = MapSet(@, itemName, Plus(MapGet(@, itemName), amount))]
        ELSE maps

\* incomeMap and expenseMap after the first n records.
RECURSIVE SummaryMaps(_, _)
SummaryMaps(records, n) ==
    IF n = 0
    THEN [income  |-> MapInit(INCOME_ITEM_NAMES, Len(INCOME_ITEM_NAMES)),
          expense |-> MapInit(EXPENSE_ITEM_NAMES, Len(EXPENSE_ITEM_NAMES))]
    ELSE AccumulateRecord(SummaryMaps(records, n - 1), records[n])

\* totalIncome / totalExpense after the first n entries of a map.
RECURSIVE TotalOfEntries(_, _)
TotalOfEntries(entries, n) ==
    IF n = 0 THEN Num(0)
    ELSE Plus(TotalOfEntries(entries, n - 1), entries[n].totalAmount)

\* dataProcessor.calculateSummary
calculateSummary(records) ==
    LET maps         == SummaryMaps(records, Len(records))
        totalIncome  == TotalOfEntries(maps.income, Len(maps.income))
        totalExpense == TotalOfEntries(maps.expense, Len(maps.expense))
    IN  [incomeSummary  |-> maps.income,
         expenseSummary |-> maps.expense,
         totalIncome    |-> totalIncome,
         totalExpense   |-> totalExpense,
         finalBalance   |-> Minus(totalIncome, totalExpense)]

\* The summary tables before the first report is rendered.
NoReport ==
    [incomeSummary |-> <<>>, expenseSummary |-> <<>>, totalIncome |-> Num(0),
     totalExpense |-> Num(0), finalBalance |-> Num(0)]

----------------------------------------------------------------------------
(* Remote Data Client (apiService).                                        *)

\* A parsed response body.  A field the body does not carry is held as its
\* falsy value: "" for error, FALSE for success and editable, <<>> for data.
ErrorBody(msg) == [error |-> msg, success |-> FALSE, data |-> <<>>, editable |-> FALSE]

ReadBody(data, editable) ==
    [error |-> "", success |-> FALSE, data |-> data, editable |-> editable]

SuccessBody == [error |-> "", success |-> TRUE, data |-> <<>>, editable |-> FALSE]

NoBody == ErrorBody("")

\* "通信に失敗しました。ネットワーク接続を確認してください。"
NetworkErrorMessage == "network-failure"

\* What the network does with one request: the service is not reached (fetch
\* rejects), it answers with a non-2xx status, it answers 2xx with a body that
\* is not JSON, or it answers 2xx with a JSON body.
Unreachable == [net |-> "unreachable", body |-> NoBody]

BadStatus == [net |-> "status", body |-> NoBody]

Malformed == [net |-> "malformed", body |-> NoBody]

Answer(body) == [net |-> "ok", body |-> body]

\* The try block of _fetchFromGoogleAppsScript: it throws when fetch rejects,
\* when response.ok is false and when response.json() rejects.
FetchTry(outcome) ==
    IF outcome.net = "unreachable" THEN [thrown |-> TRUE, value |-> NoBody]
    ELSE IF outcome.net = "status" THEN [thrown |-> TRUE, value |-> NoBody]
    ELSE IF outcome.net = "malformed" THEN [thrown |-> TRUE, value |-> NoBody]
    ELSE [thrown |-> FALSE, value |-> outcome.body]

\* The same call without its catch clause.
FetchUncaught(outcome) == FetchTry(outcome)

\* apiService._fetchFromGoogleAppsScript: what the call resolves to.
FetchFromGoogleAppsScript(outcome) ==
    LET attempt == FetchTry(outcome)
    IN  IF attempt.thrown
        THEN [thrown |-> FALSE, value |-> ErrorBody(NetworkErrorMessage)]
        ELSE attempt

NoPayload ==
    [date |-> <<>>, item |-> "", details |-> "", amount |-> NaN,
     payee |-> "", memo |-> "", rowNum |-> 0]

RequestBody(action, passcode, year, payload) ==
    [action |-> action, passcode |-> passcode, year |-> year,
     date |-> payload.date, item |-> payload.item, details |-> payload.details,
     amount |-> payload.amount, payee |-> payload.payee, memo |-> payload.memo,
     rowNum |-> payload.rowNum]

\* The same call sending its request a second time.
SendTwice(action, passcode, year, payload) ==
    <<RequestBody(action, passcode, year, payload),
      RequestBody(action, passcode, year, payload)>>

\* The requests one call of _fetchFromGoogleAppsScript puts on the wire.
RequestsOfCall(action, passcode, year, payload) ==
    <<RequestBody(action, passcode, year, payload)>>

----------------------------------------------------------------------------
(* The values the user and the remote service supply.                      *)

\* Record collections the remote service answers a read with.
Rec2 == <<2, <<2024, 5, 1>>, "honnendo-kaihi", "", 5000, "", "">>

Rec3 == <<3, <<2024, 5, 2>>, "bihin-shomohinhi", "", 2000, "", "">>

Rec4 == <<4, <<2024, 5, 1>>, "sonota-shunyu", "", 300, "", "">>

Rec5 == <<5, <<2024, 4, 15>>, "koryukai", "", 1200, "", "">>

Rec6 == <<6, <<2024, 5, 2>>, "zappi", "", 700, "", "">>

Rec7 == <<7, <<2024, 2, 29>>, "yobihi", "", 40, "", "">>

SampleRecords == {Rec2, Rec3, Rec4, Rec5, Rec6, Rec7}

ServerCollections == {<<>>, <<Rec3, Rec2>>}

\* Error messages of the remote service.
ServiceErrors == {"bad-passcode"}

ReadOutcomes ==
    {Unreachable, BadStatus, Malformed}
        \cup {Answer(ErrorBody(m)) : m \in ServiceErrors}
        \cup {Answer(ReadBody(d, e)) : d \in ServerCollections, e \in BOOLEAN}

WriteOutcomes ==
    {Unreachable, BadStatus, Malformed}
        \cup {Answer(ErrorBody(m)) : m \in ServiceErrors}
        \cup {Answer(SuccessBody)}

\* Texts of the #passcode field, values of the #select-year select.
Passcodes == {"", "pw"}

Years == {"2024"}

\* Texts of the #input-item and #input-amount fields.
InputItems == {"", "honnendo-kaihi"}

AmountTexts == {<<>>, <<"a">>, <<"0">>, <<"5">>, <<"-", "3">>}

\* The #input-date field holds the day resetInputForm put there.
Today == <<2024, 5, 3>>

SortOrders == {"asc", "desc"}

----------------------------------------------------------------------------
(* Handler activations.                                                    *)

NoInput ==
    [passcode |-> "", year |-> "", item |-> "", amountText |-> <<>>,
     rowNum |-> 0, confirmed |-> FALSE]

\* kind: the handler; pc: where it is suspended; input: what the user gave it;
\* changed: the session fields an assignment of the activation has given
\* another value than they held; reqs: the requests it has sent; outcomes,
\* results: what the network did with each answered request and what the call
\* resolved to; alerts: the notifications it has shown; latest: it is
\* suspended on the read request that was sent last.
IdleAct ==
    [kind |-> "idle", pc |-> "idle", input |-> NoInput, changed |-> {},
     reqs |-> <<>>, outcomes |-> <<>>, results |-> <<>>, alerts |-> <<>>,
     latest |-> FALSE]

StartAct(kind, input) == [IdleAct EXCEPT !.kind = kind, !.input = input]

\* The field `name` when an assignment takes it from `old` to `new`.
Changed(name, old, new) == IF old # new THEN {name} ELSE {}

Answered(act, outcome, call) ==
    [act EXCEPT !.outcomes = Append(@, outcome.net), !.results = Append(@, call.value)]

RemoveAt(seq, i) == SubSeq(seq, 1, i - 1) \o SubSeq(seq, i + 1, Len(seq))

\* The read request sent last: none yet, one not answered yet, one that
\* resolved to an error, or one that resolved to a record collection.
NoRead == [state |-> "none", data |-> <<>>]

PendingRead == [state |-> "pending", data |-> <<>>]

AnsweredRead(result) ==
    IF Truthy(result.error) THEN [state |-> "failed", data |-> <<>>]
    ELSE [state |-> "answered", data |-> result.data]

\* The suspended activations once another activation sends a read.
Overtaken(seq) == [i \in 1..Len(seq) |-> [seq[i] EXCEPT !.latest = FALSE]]

\* latestRead once the read of activation act resolved to result.
ReadResolved(act, result) ==
    latestRead' = IF act.latest THEN AnsweredRead(result) ELSE latestRead

\* The model admits a new suspended activation while there is room for it.
HasRoom == Len(acts) < MaxHandlers

----------------------------------------------------------------------------
(* appController.                                                          *)

\* appController._reloadDataAndRefreshUI, from the resolved read on: the
\* session fields it leaves, the alert it shows, whether it renders.
ReloadKeepingNothingOnError(result, records, editable) ==
    IF Truthy(result.error)
    THEN [accountingRecords |-> <<>>, isEditable |-> editable,
          alerts |-> <<result.error>>, render |-> FALSE]
    ELSE [accountingRecords |-> result.data, isEditable |-> result.editable,
          alerts |-> <<>>, render |-> TRUE]

ReloadDroppingEditOnError(result, records, editable) ==
    IF Truthy(result.error)
    THEN [accountingRecords |-> records, isEditable |-> FALSE,
          alerts |-> <<result.error>>, render |-> FALSE]
    ELSE [accountingRecords |-> result.data, isEditable |-> result.editable,
          alerts |-> <<>>, render |-> TRUE]

ReloadAppending(result, records, editable) ==
    IF Truthy(result.error)
    THEN [accountingRecords |-> records, isEditable |-> editable,
          alerts |-> <<result.error>>, render |-> FALSE]
    ELSE [accountingRecords |-> records \o result.data, isEditable |-> result.editable,
          alerts |-> <<>>, render |-> TRUE]

ReloadDataAndRefreshUI(result, records, editable) ==
    IF Truthy(result.error)
    THEN [accountingRecords |-> records, isEditable |-> editable,
          alerts |-> <<result.error>>, render |-> FALSE]
    ELSE [accountingRecords |-> result.data, isEditable |-> result.editable,
          alerts |-> <<>>, render |-> TRUE]

\* uiManager.getInputDataForNewRecord without Math.abs.
InputDataSigned(item, amountText) ==
    [date |-> Today, item |-> item, details |-> "", amount |-> ParseFloat(amountText),
     payee |-> "", memo |-> "", rowNum |-> 0]

\* uiManager.getInputDataForNewRecord
GetInputDataForNewRecord(item, amountText) ==
    [date |-> Today, item |-> item, details |-> "",
     amount |-> MathAbs(ParseFloat(amountText)),
     payee |-> "", memo |-> "", rowNum |-> 0]

\* The validation of handleSaveNewRecord without its test for zero.
RejectsWithoutZeroTest(newRecordData) ==
    ~Truthy(newRecordData.item) \/ IsNaN(newRecordData.amount)

\* The validation of handleSaveNewRecord: true when the record is rejected.
RejectsNewRecord(newRecordData) ==
    \/ ~Truthy(newRecordData.item)
    \/ IsNaN(newRecordData.amount)
    \/ newRecordData.amount.val = 0

\* A handler that reloads whatever the write or delete answered.
ReloadsAlways(result) == TRUE

\* The test `if (result.success)` of handleSaveNewRecord and handleDeleteRecord.
ReloadsAfter(result) == result.success

\* result.error || fallback
ErrorOr(result, fallback) == IF Truthy(result.error) THEN result.error ELSE fallback

\* The part of a handler from a resolved read to the end of
\* _reloadDataAndRefreshUI: session fields, table and totals.
ReloadChanges(r) ==
    Changed("accountingRecords", accountingRecords, r.accountingRecords)
        \cup Changed("isEditable", isEditable, r.isEditable)

\* uiManager.renderAccountingTable, with the values the selects and the
\* session hold when it runs; it ends with updateTotalsDisplay.
renderAccountingTable(records, filter, order, editable) ==
    /\ accountingRecords' = RecordsAfterFilterAndSort(records, filter, order)
    /\ processedRecords' = filterAndSortRecords(records, filter, order)
    /\ viewRows' = RenderRows(processedRecords', editable)
    /\ totals' = calculateTotalsFromSelection(viewRows')

ApplyReload(r) ==
    /\ isEditable' = r.isEditable
    /\ IF r.render
       THEN renderAccountingTable(r.accountingRecords, filterItem, sortOrder, r.isEditable)
       ELSE /\ accountingRecords' = r.accountingRecords
            /\ UNCHANGED table

\* A handler whose awaited call rejected: the rejection is not handled and
\* the handler does nothing more.
Crash(s) ==
    /\ acts' = RemoveAt(acts, s)
    /\ ended' = [acts[s] EXCEPT !.pc = "crashed", !.latest = FALSE]
    /\ UNCHANGED latestRead

\* appController.handleLogin, to its first await.
handleLogin(passcode, year) ==
    /\ screen = "login"
    /\ userPasscode' = passcode
    /\ selectedFiscalYear' = year
    /\ LET act == [StartAct("login", [NoInput EXCEPT !.passcode = passcode, !.year = year])
                      EXCEPT !.changed = Changed("userPasscode", userPasscode, passcode)
                                 \cup Changed("selectedFiscalYear", selectedFiscalYear, year)]
       IN  IF ~Truthy(passcode)
           THEN /\ ended' = [act EXCEPT !.pc = "done", !.alerts = <<"enter-passcode">>]
                /\ acts' = acts
                /\ UNCHANGED latestRead
           ELSE /\ HasRoom
                /\ acts' = Append(Overtaken(acts),
                               [act EXCEPT !.pc = "awaitRead", !.latest = TRUE,
                                           !.reqs = RequestsOfCall("read", passcode, year, NoPayload)])
                /\ ended' = IdleAct
                /\ latestRead' = PendingRead
    /\ UNCHANGED <<accountingRecords, isEditable, screen, filterItem, sortOrder,
                   table, report>>

\* appController.handleLogin, from the resolved read to its end.
handleLoginResume(s, outcome) ==
    /\ acts[s].kind = "login"
    /\ acts[s].pc = "awaitRead"
    /\ LET call == FetchFromGoogleAppsScript(outcome)
           r    == ReloadDataAndRefreshUI(call.value, accountingRecords, isEditable)
           act  == Answered(acts[s], outcome, call)
       IN  IF call.thrown
           THEN /\ Crash(s)
                /\ UNCHANGED <<accountingRecords, isEditable, screen, table>>
           ELSE /\ ApplyReload(r)
                /\ screen' = "main"
                /\ acts' = RemoveAt(acts, s)
                /\ ended' = [act EXCEPT !.pc = "done", !.alerts = @ \o r.alerts,
                                        !.changed = @ \cup ReloadChanges(r),
                                        !.latest = FALSE]
                /\ ReadResolved(act, call.value)
    /\ UNCHANGED <<userPasscode, selectedFiscalYear, filterItem, sortOrder, report>>

\* appController.handleSaveNewRecord, to its first await.
handleSaveNewRecord(item, amountText) ==
    /\ screen = "main"
    /\ LET newRecordData == GetInputDataForNewRecord(item, amountText)
           act == StartAct("save", [NoInput EXCEPT !.item = item, !.amountText = amountText])
       IN  IF RejectsNewRecord(newRecordData)
           THEN /\ ended' = [act EXCEPT !.pc = "done", !.alerts = <<"item-and-amount-required">>]
                /\ acts' = acts
           ELSE /\ HasRoom
                /\ acts' = Append(acts,
                               [act EXCEPT !.pc = "awaitWrite",
                                           !.reqs = RequestsOfCall("write", userPasscode,
                                                        selectedFiscalYear, newRecordData)])
                /\ ended' = IdleAct
    /\ UNCHANGED <<userPasscode, selectedFiscalYear, accountingRecords, isEditable,
                   screen, filterItem, sortOrder, table, report, latestRead>>

\* appController.handleDeleteRecord, to its first await.  The handler is
\* started from the delete button of a rendered row.
handleDeleteRecord(rowNumber, confirmed) ==
    /\ screen = "main"
    /\ \E i \in 1..Len(viewRows) :
          viewRows[i].deleteButton /\ viewRows[i].rowNumber = rowNumber
    /\ LET act == StartAct("delete", [NoInput EXCEPT !.rowNum = rowNumber,
                                                      !.confirmed = confirmed])
       IN  IF ~confirmed
           THEN /\ ended' = [act EXCEPT !.pc = "done"]
                /\ acts' = acts
           ELSE /\ HasRoom
                /\ acts' = Append(acts,
                               [act EXCEPT !.pc = "awaitDelete",
                                           !.reqs = RequestsOfCall("delete", userPasscode,
                                                        selectedFiscalYear,
                                                        [NoPayload EXCEPT !.rowNum = rowNumber])])
                /\ ended' = IdleAct
    /\ UNCHANGED <<userPasscode, selectedFiscalYear, accountingRecords, isEditable,
                   screen, filterItem, sortOrder, table, report, latestRead>>

\* handleSaveNewRecord and handleDeleteRecord, from the resolved write or
\* delete to the next await or to the end.
AfterMutation(s, outcome, savedAlert, fallback) ==
    LET call   == FetchFromGoogleAppsScript(outcome)
        result == call.value
        act    == Answered(acts[s], outcome, call)
    IN  /\ IF call.thrown
           THEN Crash(s)
           ELSE IF ReloadsAfter(result)
           THEN /\ acts' = [Overtaken(acts) EXCEPT ![s] =
                               [act EXCEPT !.pc = "awaitRead", !.latest = TRUE,
                                           !.alerts = @ \o savedAlert,
                                           !.reqs = @ \o RequestsOfCall("read", userPasscode,
                                                             selectedFiscalYear, NoPayload)]]
                /\ ended' = IdleAct
                /\ latestRead' = PendingRead
           ELSE /\ acts' = RemoveAt(acts, s)
                /\ ended' = [act EXCEPT !.pc = "done",
                                        !.alerts = @ \o <<ErrorOr(result, fallback)>>]
                /\ UNCHANGED latestRead
        /\ UNCHANGED <<userPasscode, selectedFiscalYear, accountingRecords, isEditable,
                       screen, filterItem, sortOrder, table, report>>

\* "保存しました" / "保存に失敗しました。"
handleSaveNewRecordResume(s, outcome) ==
    /\ acts[s].kind = "save"
    /\ acts[s].pc = "awaitWrite"
    /\ AfterMutation(s, outcome, <<"saved">>, "save-failed")

\* "削除に失敗しました。"
handleDeleteRecordResume(s, outcome) ==
    /\ acts[s].kind = "delete"
    /\ acts[s].pc = "awaitDelete"
    /\ AfterMutation(s, outcome, <<>>, "delete-failed")

\* handleSaveNewRecord and handleDeleteRecord, from the resolved follow-up
\* read to the end.
reloadResume(s, outcome) ==
    /\ acts[s].kind \in {"save", "delete"}
    /\ acts[s].pc = "awaitRead"
    /\ LET call == FetchFromGoogleAppsScript(outcome)
           r    == ReloadDataAndRefreshUI(call.value, accountingRecords, isEditable)
           act  == Answered(acts[s], outcome, call)
       IN  IF call.thrown
           THEN /\ Crash(s)
                /\ UNCHANGED <<accountingRecords, isEditable, table>>
           ELSE /\ ApplyReload(r)
                /\ acts' = RemoveAt(acts, s)
                /\ ended' = [act EXCEPT !.pc = "done", !.alerts = @ \o r.alerts,
                                        !.changed = @ \cup ReloadChanges(r),
                                        !.latest = FALSE]
                /\ ReadResolved(act, call.value)
    /\ UNCHANGED <<userPasscode, selectedFiscalYear, screen, filterItem, sortOrder,
                   report>>

----------------------------------------------------------------------------
(* The session: a freshly loaded page, its users and the network.          *)

NoTotals == [incomeTotal |-> Num(0), expenseTotal |-> Num(0), balance |-> Num(0)]

Init ==
    /\ userPasscode = ""
    /\ selectedFiscalYear = ""
    /\ accountingRecords = <<>>
    /\ isEditable = FALSE
    /\ screen = "login"
    /\ filterItem = "ALL"
    /\ sortOrder \in SortOrders
    /\ processedRecords = <<>>
    /\ viewRows = <<>>
    /\ totals = NoTotals
    /\ report = NoReport
    /\ acts = <<>>
    /\ ended = IdleAct
    /\ latestRead = NoRead

Next ==
    \/ \E passcode \in Passcodes, year \in Years : handleLogin(passcode, year)
    \/ \E s \in 1..Len(acts), outcome \in ReadOutcomes : handleLoginResume(s, outcome)
    \/ \E item \in InputItems, amountText \in AmountTexts : handleSaveNewRecord(item, amountText)
    \/ \E s \in 1..Len(acts), outcome \in WriteOutcomes : handleSaveNewRecordResume(s, outcome)
    \/ \E rowNumber \in {r[1] : r \in SampleRecords}, confirmed \in BOOLEAN :
          handleDeleteRecord(rowNumber, confirmed)
    \/ \E s \in 1..Len(acts), outcome \in WriteOutcomes : handleDeleteRecordResume(s, outcome)
    \/ \E s \in 1..Len(acts), outcome \in ReadOutcomes : reloadResume(s, outcome)

Spec == Init /\ [][Next]_vars

----------------------------------------------------------------------------
(* The table: a session that has loaded a record collection, and the user  *)
(* working on the view.                                                    *)

\* Values of the #filter-item select: the three sentinels and category names,
\* one of them the category of no sample record.
FilterKeys ==
    {"ALL", "_INCOME_ONLY_", "_EXPENSES_ONLY_", "honnendo-kaihi",
     "bihin-shomohinhi", "tsushinhi"}

IsInjective(seq) == \A i, j \in 1..Len(seq) : seq[i] = seq[j] => i = j

\* The record collections a read may have loaded: the rows of a sheet, each
\* row once, in any order.
RecordCollections ==
    {c \in UNION {[1..n -> SampleRecords] : n \in 0..MaxLen} : IsInjective(c)}

InitData ==
    /\ userPasscode = "pw"
    /\ selectedFiscalYear = "2024"
    /\ accountingRecords \in RecordCollections
    /\ isEditable \in BOOLEAN
    /\ screen = "main"
    /\ filterItem \in FilterKeys
    /\ sortOrder \in SortOrders
    /\ processedRecords = filterAndSortRecords(accountingRecords, filterItem, sortOrder)
    /\ viewRows = RenderRows(processedRecords, isEditable)
    /\ totals = calculateTotalsFromSelection(viewRows)
    /\ report = NoReport
    /\ acts = <<>>
    /\ ended = IdleAct
    /\ latestRead = AnsweredRead(ReadBody(accountingRecords, isEditable))

\* The user picks a value of #filter-item: app.renderAccountingTable.
changeFilter(filter) ==
    /\ filterItem' = filter
    /\ renderAccountingTable(accountingRecords, filter, sortOrder, isEditable)
    /\ UNCHANGED <<userPasscode, selectedFiscalYear, isEditable, screen, sortOrder,
                   report, acts, ended, latestRead>>

\* The user picks a value of #sort-order: app.renderAccountingTable.
changeSortOrder(order) ==
    /\ sortOrder' = order
    /\ renderAccountingTable(accountingRecords, filterItem, order, isEditable)
    /\ UNCHANGED <<userPasscode, selectedFiscalYear, isEditable, screen, filterItem,
                   report, acts, ended, latestRead>>

\* The user clicks the checkbox of row i: app.updateTotalsDisplay.
toggleCheckbox(i) ==
    /\ viewRows' = [viewRows EXCEPT ![i].checked = ~@]
    /\ totals' = calculateTotalsFromSelection(viewRows')
    /\ UNCHANGED <<userPasscode, selectedFiscalYear, accountingRecords, isEditable,
                   screen, filterItem, sortOrder, processedRecords, report, acts,
                   ended, latestRead>>

\* uiManager.switchTab: the table is rendered when the view tab is shown.
\* (Which tab is displayed is not part of the model.)
switchTab(tabName) ==
    /\ IF tabName # "input"
       THEN renderAccountingTable(accountingRecords, filterItem, sortOrder, isEditable)
       ELSE UNCHANGED <<accountingRecords, table>>
    /\ UNCHANGED <<userPasscode, selectedFiscalYear, isEditable, screen, filterItem,
                   sortOrder, report, acts, ended, latestRead>>

\* appController.handlePrintSummaryReport: the summary of the whole record
\* cache is rendered.  (The document title and the print dialog are not part
\* of the model.)
handlePrintSummaryReport ==
    /\ report' = calculateSummary(accountingRecords)
    /\ UNCHANGED <<userPasscode, selectedFiscalYear, accountingRecords, isEditable,
                   screen, filterItem, sortOrder, table, acts, ended, latestRead>>

NextData ==
    \/ handlePrintSummaryReport
    \/ \E filter \in FilterKeys : changeFilter(filter)
    \/ \E order \in SortOrders : changeSortOrder(order)
    \/ \E i \in 1..Len(viewRows) : toggleCheckbox(i)
    \/ \E tabName \in {"input", "view"} : switchTab(tabName)

SpecData == InitData /\ [][NextData]_vars

----------------------------------------------------------------------------
(* What an activation shows of its handler.                                *)

\* The suspended activations and the one that ended in the latest step.
Activations == SeqToSet(acts) \cup {ended}

\* The position, among the calls of a handler, of its read.
ReadPosition(act) == IF act.kind = "login" THEN 1 ELSE 2

ReadAnswered(act) == Len(act.results) >= ReadPosition(act)

ReadResult(act) == act.results[ReadPosition(act)]

ReadSucceeded(act) == ReadAnswered(act) /\ ~Truthy(ReadResult(act).error)

ReadFailed(act) == ReadAnswered(act) /\ Truthy(ReadResult(act).error)

\* The write or delete of a save or delete activation reported success.
MutationSucceeded(act) ==
    act.kind \in {"save", "delete"} /\ act.results # <<>> /\ act.results[1].success

\* The activation ended on a validation error, or on an error result of one
\* of its calls (an error of the remote service or of the transport).
ValidationFailed(act) ==
    act.pc = "done" /\ act.reqs = <<>> /\ act.alerts # <<>>

CallFailed(act) ==
    act.pc = "done" /\ act.results # <<>>
        /\ Truthy(act.results[Len(act.results)].error)

Failed(act) == ValidationFailed(act) \/ CallFailed(act)

ActionsOf(reqs) == [i \in 1..Len(reqs) |-> reqs[i].action]

CountOf(reqs, actions) == Cardinality({i \in 1..Len(reqs) : reqs[i].action \in actions})

----------------------------------------------------------------------------
(* The session claims.                                                     *)

\* C1 (as stated): once a save or delete whose write or delete succeeded has
\* ended, and once any read has succeeded, the record cache is the data
\* collection of the read the handler issued after the write or delete,
\* whatever that follow-up read answered.
C1_CacheReplacedWhateverTheReadAnswers ==
    /\ (ended.pc = "done" /\ MutationSucceeded(ended))
          => (ReadSucceeded(ended) /\ accountingRecords = ReadResult(ended).data)
    /\ (ended.pc = "done" /\ ReadSucceeded(ended))
          => accountingRecords = ReadResult(ended).data

\* C1 (amended): a handler that ends on a successful read, at login or in the
\* reload after a successful write or delete, leaves the record cache equal to
\* the data collection of that read's response, and the edit flag equal to its
\* editable field; every save or delete whose write or delete succeeded has
\* issued that read after the write or delete was answered; when the
\* follow-up read fails the handler has not replaced the cache.
C1_CacheReplacedByTheSuccessfulRead ==
    /\ (ended.pc = "done" /\ ReadSucceeded(ended))
          => /\ accountingRecords = ReadResult(ended).data
             /\ isEditable = ReadResult(ended).editable
    /\ (ended.pc = "done" /\ MutationSucceeded(ended))
          => /\ ReadAnswered(ended)
             /\ ActionsOf(ended.reqs) \in {<<"write", "read">>, <<"delete", "read">>}
             /\ ReadFailed(ended) => "accountingRecords" \notin ended.changed

C1_Witness ==
    /\ ended.kind = "save"
    /\ ended.pc = "done"
    /\ ReadSucceeded(ended)
    /\ ReadResult(ended).data = <<Rec3, Rec2>>
    /\ accountingRecords = <<Rec3, Rec2>>
    /\ "accountingRecords" \in ended.changed

\* C2: a handler whose read answered with an error has shown the error's
\* message and has given neither the record cache nor the edit flag another
\* value, in handleLogin as in the reload of a save or a delete.
C2_ReadErrorKeepsCacheAndEditFlag ==
    (ended.pc = "done" /\ ReadFailed(ended))
        => /\ "accountingRecords" \notin ended.changed
           /\ "isEditable" \notin ended.changed
           /\ ended.alerts # <<>>
           /\ ended.alerts[Len(ended.alerts)] = ReadResult(ended).error

C2_Witness ==
    /\ ended.kind \in {"save", "delete"}
    /\ ended.pc = "done"
    /\ ReadFailed(ended)
    /\ ended.outcomes[2] = "ok"
    /\ ended.alerts[Len(ended.alerts)] = "bad-passcode"
    /\ accountingRecords = <<Rec3, Rec2>>
    /\ isEditable

\* C3: the application goes from the login screen to the main screen only in
\* a step that ends a handleLogin whose read, issued with the supplied
\* credential and year, answered with a success payload; a handleLogin with
\* no credential or with a failed read leaves the login screen displayed.
C3_MainScreenOnlyAfterSuccessfulRead ==
    [][(screen = "login" /\ screen' = "main")
          => /\ ended'.kind = "login"
             /\ ReadSucceeded(ended')
             /\ ended'.reqs[1].passcode = ended'.input.passcode
             /\ ended'.reqs[1].year = ended'.input.year]_vars

\* C4 (as stated): an activation that ended in a validation error, a
\* remote-service error or a transport error has given none of the credential
\* token, the fiscal year, the edit flag and the record cache another value
\* than it held.
C4_FailedActionChangesNothing ==
    Failed(ended) => ended.changed = {}

\* C4 (amended): a failed handleSaveNewRecord or handleDeleteRecord has given
\* none of the four session fields another value; a failed handleLogin has
\* changed neither the edit flag nor the record cache, but it has overwritten
\* the credential token and the fiscal year with the supplied values, which
\* it does at its start, before the validation and the read.
C4_FailedActionChangesOnlyLoginCredentials ==
    Failed(ended)
        => /\ ended.kind \in {"save", "delete"} => ended.changed = {}
           /\ ended.kind = "login"
                 => ended.changed \subseteq {"userPasscode", "selectedFiscalYear"}

C4_Witness ==
    /\ ended.kind = "login"
    /\ CallFailed(ended)
    /\ ended.changed = {"userPasscode", "selectedFiscalYear"}
    /\ userPasscode = "pw"
    /\ accountingRecords = <<>>

\* C5: every call of the Remote Data Client resolves to a result and none
\* rejects: no handler stops on an unhandled rejection, each answered request
\* has its result, and a request that did not reach the service, that was
\* answered with a non-success status or with a body that is not JSON gives
\* the result {error: message}.
C5_TransportFailuresBecomeErrorResults ==
    \A act \in Activations :
        /\ act.pc # "crashed"
        /\ Len(act.results) = Len(act.outcomes)
        /\ \A i \in 1..Len(act.outcomes) :
              act.outcomes[i] \in {"unreachable", "status", "malformed"}
                  => act.results[i] = ErrorBody(NetworkErrorMessage)

C5_Witness ==
    /\ ended.kind = "delete"
    /\ ended.pc = "done"
    /\ ended.outcomes = <<"ok", "malformed">>
    /\ ended.results[2] = ErrorBody(NetworkErrorMessage)

\* C6: a handler whose input fails validation sends no request: a handleLogin
\* given an empty credential, and a handleSaveNewRecord given no category, an
\* amount text that is not a number or an amount of zero.
C6_ValidationErrorSendsNoRequest ==
    \A act \in Activations :
        /\ (act.kind = "login" /\ act.input.passcode = "") => act.reqs = <<>>
        /\ (act.kind = "save"
               /\ \/ act.input.item = ""
                  \/ ParseFloat(act.input.amountText).nan
                  \/ ParseFloat(act.input.amountText).val = 0)
              => act.reqs = <<>>

C6_Witness ==
    /\ ended.kind = "save"
    /\ ended.input.item = "honnendo-kaihi"
    /\ ended.input.amountText = <<"0">>
    /\ ended.reqs = <<>>
    /\ ended.alerts = <<"item-and-amount-required">>

\* C7: a save or delete handler sends its write or delete request first, and
\* sends a read request after it exactly when the write or delete has been
\* answered with success; a failed or declined write or delete is followed by
\* no read.
C7_ReloadExactlyAfterSuccessfulMutation ==
    \A act \in Activations :
        act.kind \in {"save", "delete"}
            => /\ act.reqs # <<>>
                  => act.reqs[1].action = (IF act.kind = "save" THEN "write" ELSE "delete")
               /\ \A i \in 2..Len(act.reqs) : act.reqs[i].action = "read"
               /\ (\E i \in 1..Len(act.reqs) : act.reqs[i].action = "read")
                     <=> MutationSucceeded(act)

C7_Witness ==
    /\ ended.kind = "delete"
    /\ ended.pc = "done"
    /\ MutationSucceeded(ended)
    /\ ActionsOf(ended.reqs) = <<"delete", "read">>

\* C8: one activation sends at most one write or delete request and at most
\* one read request, and sends no request after a call of it has resolved to
\* an error: that call is its last and the activation has ended.
C8_NoRetries ==
    \A act \in Activations :
        /\ CountOf(act.reqs, {"write", "delete"}) <= 1
        /\ CountOf(act.reqs, {"read"}) <= 1
        /\ \A i \in 1..Len(act.results) :
              Truthy(act.results[i].error)
                  => /\ Len(act.reqs) = i
                     /\ Len(act.results) = i
                     /\ act.pc = "done"

C8_Witness ==
    /\ ended.kind = "save"
    /\ ended.pc = "done"
    /\ ended.outcomes = <<"unreachable">>
    /\ ActionsOf(ended.reqs) = <<"write">>
    /\ ended.alerts = <<NetworkErrorMessage>>

\* C9: the amount of every write request sent is a number that is not
\* negative: it is the absolute value of the number typed, so that a negative
\* input is sent without its sign.
C9_WrittenAmountIsNonNegative ==
    \A act \in Activations :
        \A i \in 1..Len(act.reqs) :
            act.reqs[i].action = "write"
                => /\ ~act.reqs[i].amount.nan
                   /\ act.reqs[i].amount.val >= 0
                   /\ act.reqs[i].amount = MathAbs(ParseFloat(act.input.amountText))

C9_Witness ==
    \E s \in 1..Len(acts) :
        /\ acts[s].kind = "save"
        /\ acts[s].input.amountText = <<"-", "3">>
        /\ acts[s].reqs[1].action = "write"
        /\ acts[s].reqs[1].amount = Num(3)

----------------------------------------------------------------------------
(* The data-processing claims.                                             *)

Occurrences(seq, x) == Cardinality({i \in 1..Len(seq) : seq[i] = x})

IsPermutationOf(out, inp) ==
    /\ Len(out) = Len(inp)
    /\ \A x \in SeqToSet(out) \cup SeqToSet(inp) : Occurrences(out, x) = Occurrences(inp, x)

OrderedByDate(out, order) ==
    \A i, j \in 1..Len(out) :
        i < j => IF order = "asc"
                 THEN DateValue(out[i][2]) <= DateValue(out[j][2])
                 ELSE DateValue(out[i][2]) >= DateValue(out[j][2])

\* C10: with the filter "ALL" the records filterAndSortRecords returned are a
\* permutation of the whole record cache (none dropped, none twice), in
\* non-decreasing order of date for "asc" and non-increasing order for "desc".
C10_AllIsPermutationOrderedByDate ==
    filterItem = "ALL"
        => /\ IsPermutationOf(processedRecords, accountingRecords)
           /\ OrderedByDate(processedRecords, sortOrder)

C10_Witness ==
    /\ filterItem = "ALL"
    /\ sortOrder = "desc"
    /\ accountingRecords = <<Rec5, Rec2, Rec3>>
    /\ processedRecords = <<Rec3, Rec2, Rec5>>

Sentinels == {"ALL", "_INCOME_ONLY_", "_EXPENSES_ONLY_"}

IsConfigured(itemName) ==
    Includes(INCOME_ITEM_NAMES, itemName) \/ Includes(EXPENSE_ITEM_NAMES, itemName)

\* The table shows what filterAndSortRecords returns for the cache, the filter
\* key and the sort order of the state.
TableIsRendered ==
    processedRecords = filterAndSortRecords(accountingRecords, filterItem, sortOrder)

\* C11: for the record cache of every state, the income-only output and the
\* expense-only output of filterAndSortRecords share no record, and each
\* record of the "ALL" output occurs in the two together as often as in the
\* "ALL" output; the income-only output holds exactly the records whose
\* category is in INCOME_ITEM_NAMES, so that a record whose category is in
\* neither list is in the expense-only output.  The table rendered with one
\* of the three keys shows the output for that key.
C11_IncomeAndExpensePartitionAll ==
    LET income  == filterAndSortRecords(accountingRecords, "_INCOME_ONLY_", sortOrder)
        expense == filterAndSortRecords(accountingRecords, "_EXPENSES_ONLY_", sortOrder)
        all     == filterAndSortRecords(accountingRecords, "ALL", sortOrder)
    IN  /\ SeqToSet(income) \cap SeqToSet(expense) = {}
        /\ SeqToSet(income) \cup SeqToSet(expense) = SeqToSet(all)
        /\ \A r \in SeqToSet(all) :
              Occurrences(income, r) + Occurrences(expense, r) = Occurrences(all, r)
        /\ \A r \in SeqToSet(all) :
              /\ r \in SeqToSet(income) <=> r[3] \in SeqToSet(INCOME_ITEM_NAMES)
              /\ ~IsConfigured(r[3]) => r \in SeqToSet(expense)
        /\ TableIsRendered
        /\ filterItem = "_INCOME_ONLY_" => processedRecords = income
        /\ filterItem = "_EXPENSES_ONLY_" => processedRecords = expense

C11_Witness ==
    /\ filterItem = "_EXPENSES_ONLY_"
    /\ sortOrder = "asc"
    /\ accountingRecords = <<Rec6, Rec2, Rec3>>
    /\ processedRecords = <<Rec6, Rec3>>

Reverse(seq) == [i \in 1..Len(seq) |-> seq[Len(seq) + 1 - i]]

DistinctDates(records) ==
    \A i, j \in 1..Len(records) : records[i][2] = records[j][2] => i = j

OtherOrder(order) == IF order = "asc" THEN "desc" ELSE "asc"

\* C12: when no two records of the cache have the same date, the records
\* filterAndSortRecords returns for a filter key in one sort order are, read
\* backwards, the records it returns for the same key in the other order;
\* this for every filter key, and for the table as rendered.
C12_DescendingIsReverseOfAscending ==
    DistinctDates(accountingRecords)
        => /\ \A key \in FilterKeys :
                 filterAndSortRecords(accountingRecords, key, "desc")
                     = Reverse(filterAndSortRecords(accountingRecords, key, "asc"))
           /\ processedRecords
                 = Reverse(filterAndSortRecords(accountingRecords, filterItem,
                                                OtherOrder(sortOrder)))

C12_Witness ==
    /\ filterItem = "_EXPENSES_ONLY_"
    /\ sortOrder = "desc"
    /\ accountingRecords = <<Rec5, Rec7, Rec3>>
    /\ processedRecords = <<Rec3, Rec5, Rec7>>
    /\ filterAndSortRecords(accountingRecords, filterItem, "asc") = <<Rec7, Rec5, Rec3>>

\* C13: no step of the user on the table (a render after a change of the
\* filter key or of the sort order, a switch of tab, a checkbox toggle, the
\* summary report) changes the record cache: after the step it holds the same
\* records in the same order, whatever filterAndSortRecords returned.
C13_CacheIsNotMutated ==
    [][accountingRecords' = accountingRecords]_vars

\* A table in another order than the cache it was rendered from, and one of
\* its checkboxes clicked.
C13_Witness ==
    /\ accountingRecords = <<Rec3, Rec2, Rec5>>
    /\ filterItem = "ALL"
    /\ sortOrder = "asc"
    /\ processedRecords = <<Rec5, Rec2, Rec3>>
    /\ ~viewRows[2].checked

\* C14: with a filter key that is none of the three sentinels, the records
\* filterAndSortRecords returns are the records of the cache whose category
\* is the key, each as often as the cache holds it and no other record; a key
\* that is the category of no record gives no record, and so does an empty
\* cache with any key.
C14_CategoryKeySelectsExactMatches ==
    /\ \A key \in FilterKeys \ Sentinels :
          LET out     == filterAndSortRecords(accountingRecords, key, sortOrder)
              matches == SelectSeq(accountingRecords, LAMBDA r : r[3] = key)
          IN  /\ IsPermutationOf(out, matches)
              /\ (\A i \in 1..Len(accountingRecords) : accountingRecords[i][3] # key)
                    => out = <<>>
              /\ filterItem = key => processedRecords = out
    /\ accountingRecords = <<>> => processedRecords = <<>>

C14_Witness ==
    /\ filterItem = "bihin-shomohinhi"
    /\ accountingRecords = <<Rec2, Rec3, Rec5>>
    /\ processedRecords = <<Rec3>>
    /\ filterAndSortRecords(accountingRecords, "tsushinhi", sortOrder) = <<>>

\* t2 is t1 with the total of the flag `income` lowered by amount and the
\* other total as it was.
LoweredBy(t1, t2, income, amount) ==
    IF income = "true"
    THEN /\ t2.incomeTotal = Minus(t1.incomeTotal, amount)
         /\ t2.expenseTotal = t1.expenseTotal
    ELSE /\ t2.expenseTotal = Minus(t1.expenseTotal, amount)
         /\ t2.incomeTotal = t1.incomeTotal

\* C15: in every state, whichever rows are checked, the totals displayed are
\* those of the checkboxes of the table, none of them is NaN and the balance
\* is incomeTotal - expenseTotal; a step that unchecks one row lowers the
\* total of that row's income flag by the amount of the row's record and
\* leaves the other total as it was.  The same holds of recalculateSelected of
\* the earlier version.
C15_SelectionTotalsCountCheckedRows ==
    /\ [](/\ totals = calculateTotalsFromSelection(viewRows)
          /\ ~totals.incomeTotal.nan /\ ~totals.expenseTotal.nan
          /\ totals.balance = Num(totals.incomeTotal.val - totals.expenseTotal.val)
          /\ recalculateSelected(viewRows) = totals)
    /\ [][\A i \in 1..Len(viewRows) :
             (viewRows[i].checked /\ viewRows' = [viewRows EXCEPT ![i].checked = FALSE])
                 => /\ LoweredBy(totals, totals', viewRows[i].income,
                                 Num(processedRecords[i][5]))
                    /\ LoweredBy(recalculateSelected(viewRows),
                                 recalculateSelected(viewRows'),
                                 viewRows[i].income, Num(processedRecords[i][5]))]_vars

C15_Witness ==
    /\ accountingRecords = <<Rec2, Rec3>>
    /\ filterItem = "ALL"
    /\ sortOrder = "asc"
    /\ ~viewRows[1].checked
    /\ viewRows[2].checked
    /\ totals = [incomeTotal |-> Num(0), expenseTotal |-> Num(2000),
                 balance |-> Num(0 - 2000)]

\* The sum of the amounts of the records whose category is in names.
RECURSIVE AmountIn(_, _)
AmountIn(records, names) ==
    IF records = <<>> THEN 0
    ELSE (IF Head(records)[3] \in names THEN Head(records)[5] ELSE 0)
             + AmountIn(Tail(records), names)

RECURSIVE SumOfRows(_)
SumOfRows(rows) ==
    IF rows = <<>> THEN 0 ELSE Head(rows).totalAmount.val + SumOfRows(Tail(rows))

ItemNamesOf(rows) == [i \in 1..Len(rows) |-> rows[i].itemName]

\* C16: the summary report rendered for the record cache has a totalIncome
\* that is the sum of its income rows, a totalExpense that is the sum of its
\* expense rows and a finalBalance of totalIncome - totalExpense; each row
\* holds the sum of the amounts of the records of its category; the report is
\* the one the cache gives without its records whose category is in neither
\* list, which add to no total and to no row.
C16_SummaryTotalsAreSumsOfRows ==
    report # NoReport
        => /\ report = calculateSummary(accountingRecords)
           /\ report.totalIncome = Num(SumOfRows(report.incomeSummary))
           /\ report.totalExpense = Num(SumOfRows(report.expenseSummary))
           /\ report.finalBalance
                 = Num(report.totalIncome.val - report.totalExpense.val)
           /\ \A i \in 1..Len(report.incomeSummary) :
                 report.incomeSummary[i].totalAmount
                     = Num(AmountIn(accountingRecords, {report.incomeSummary[i].itemName}))
           /\ \A i \in 1..Len(report.expenseSummary) :
                 report.expenseSummary[i].totalAmount
                     = Num(AmountIn(accountingRecords, {report.expenseSummary[i].itemName}))
           /\ report = calculateSummary(
                           SelectSeq(accountingRecords, LAMBDA r : IsConfigured(r[3])))

C16_Witness ==
    /\ accountingRecords = <<Rec2, Rec6, Rec3>>
    /\ report.totalIncome = Num(5000)
    /\ report.totalExpense = Num(2000)
    /\ report.finalBalance = Num(3000)
    /\ report.incomeSummary[2] = [itemName |-> "honnendo-kaihi", totalAmount |-> Num(5000)]

\* The sequences holding the elements of seq in any order.
PermutationsOf(seq) ==
    {[i \in 1..Len(seq) |-> seq[q[i]]] :
        q \in {f \in [1..Len(seq) -> 1..Len(seq)] : IsInjective(f)}}

\* C17: the summary report rendered for the record cache is the report
\* calculateSummary returns for the records of the cache in any other order;
\* its income rows are the categories of INCOME_ITEM_NAMES and its expense
\* rows those of EXPENSE_ITEM_NAMES, one row each in the order of the list,
\* with a total of 0 for a category no record has.
C17_SummaryIndependentOfRecordOrder ==
    report # NoReport
        => /\ \A p \in PermutationsOf(accountingRecords) : calculateSummary(p) = report
           /\ ItemNamesOf(report.incomeSummary) = INCOME_ITEM_NAMES
           /\ ItemNamesOf(report.expenseSummary) = EXPENSE_ITEM_NAMES
           /\ \A i \in 1..Len(report.expenseSummary) :
                 (\A j \in 1..Len(accountingRecords) :
                      accountingRecords[j][3] # report.expenseSummary[i].itemName)
                     => report.expenseSummary[i].totalAmount = Num(0)

C17_Witness ==
    /\ accountingRecords = <<Rec5, Rec3, Rec2>>
    /\ report # NoReport
    /\ report.expenseSummary[1] = [itemName |-> "bihin-shomohinhi", totalAmount |-> Num(2000)]
    /\ report.expenseSummary[2] = [itemName |-> "koryukai", totalAmount |-> Num(1200)]
    /\ report.expenseSummary[15] = [itemName |-> "yobihi", totalAmount |-> Num(0)]
    /\ report = calculateSummary(<<Rec2, Rec3, Rec5>>)

\* C18: whenever no handler is suspended on a request and the read request
\* that was sent last has been answered with a record collection, the record
\* cache is that collection, in whatever order the handlers were started and
\* their requests answered.
C18_CacheIsTheLatestReadsCollection ==
    (acts = <<>> /\ latestRead.state = "answered")
        => accountingRecords = latestRead.data

\* The categories of the records that are in neither configured list.
UnconfiguredIn(records) == {r[3] : r \in SeqToSet(records)} \ {n \in {r[3] : r \in SeqToSet(records)} : IsConfigured(n)}

\* C19: when the table has just been rendered with the filter "ALL", every
\* row checked, and the summary report is that of the same record cache, the
\* selection totals and the summary agree on the income total; the expense
\* total of the selection is that of the summary plus the amounts of the
\* records whose category is in neither list, and the balance is lower by as
\* much; so the three totals are equal when every category of the cache is
\* configured.
C19_SelectionTotalsAgreeWithSummary ==
    (/\ report # NoReport
     /\ filterItem = "ALL"
     /\ \A i \in 1..Len(viewRows) : viewRows[i].checked)
        => LET extra == AmountIn(accountingRecords, UnconfiguredIn(accountingRecords))
           IN  /\ report = calculateSummary(accountingRecords)
               /\ viewRows = RenderRows(filterAndSortRecords(accountingRecords, "ALL", sortOrder),
                                        isEditable)
               /\ totals.incomeTotal = report.totalIncome
               /\ totals.expenseTotal = Num(report.totalExpense.val + extra)
               /\ totals.balance = Num(report.finalBalance.val - extra)
               /\ UnconfiguredIn(accountingRecords) = {}
                     => /\ totals.expenseTotal = report.totalExpense
                        /\ totals.balance = report.finalBalance

C19_Witness ==
    /\ accountingRecords = <<Rec2, Rec3, Rec4>>
    /\ filterItem = "ALL"
    /\ \A i \in 1..Len(viewRows) : viewRows[i].checked
    /\ report # NoReport
    /\ totals.incomeTotal = Num(5300) /\ report.totalIncome = Num(5300)
    /\ totals.expenseTotal = Num(2000) /\ report.totalExpense = Num(2000)
    /\ totals.balance = Num(3300) /\ report.finalBalance = Num(3300)

====
